---- MODULE Spec2Model ----
(***************************************************************************)
(* Model of the VALUES-list scan node of src/backend/executor/             *)
(* nodeValuesscan.c: ExecInitValuesScan, ExecValuesScan / ValuesNext,      *)
(* ValuesRecheck, ExecReScanValuesScan and ExecEndValuesScan, as a state   *)
(* machine over the fields of ValuesScanState.                             *)
(*                                                                         *)
(* C arrays are functions over 0..array_len-1, C lists are sequences and   *)
(* NIL is the empty sequence.  An expression is a record [kind, tag]; the  *)
(* tag <<i, c>> is the identity of the expression node (row i, column c of *)
(* the plan's values_lists).                                               *)
(***************************************************************************)
EXTENDS Integers, Sequences, FiniteSets, TLC

\* ------------------------------------------------------------- bounds
\* Longest values_lists and widest sublist the model enumerates.
MaxRows == 2
MaxCols == 2
\* The per-scan call counter saturates here (it means "this many or more").
MaxCalls == MaxRows + 2

\* ------------------------------------------------------ plan universe
\* What an expression does when it is evaluated:
\*   const    an ordinary value
\*   rw       a read-write expanded datum
\*   err      evaluation raises an error
\*   subplan  the expression contains a SubPlan
Kinds == {"const", "rw", "err", "subplan"}

\* A sublist of width w: all "const", or "rw" in its first column, or
\* "subplan" in its first column (and "rw" in its second, if it has one), or
\* "err" in its first or its last column.
RowKinds(w) ==
    { [c \in 1..w |-> "const"] }
    \cup { [c \in 1..w |-> IF c = 1 THEN "rw" ELSE "const"] }
    \cup { [c \in 1..w |-> IF c = 1 THEN "subplan" ELSE IF c = 2 THEN "rw" ELSE "const"] }
    \cup { [c \in 1..w |-> IF c = e THEN "err" ELSE "const"] : e \in {1, w} }

RowShapes == UNION { RowKinds(w) : w \in 1..MaxCols }

\* values_lists of a plan: row i (0-based), column c (0-based) carries its tag.
TagRows(shape) ==
    [i \in 1..Len(shape) |->
        [c \in 1..Len(shape[i]) |-> [kind |-> shape[i][c], tag |-> <<i - 1, c - 1>>]]]

Plans == { TagRows(s) : s \in UNION { [1..n -> RowShapes] : n \in 0..MaxRows } }

NIL == << >>
NoSlot == [isempty |-> TRUE, values |-> << >>]
Forward == "Forward"
Backward == "Backward"
Directions == {Forward, Backward}

VARIABLES
    values_lists,      \* ValuesScan.values_lists (the plan node, immutable)
    es_subplanstates,  \* EState.es_subplanstates is non-NIL
    hasProj,           \* the scan node projects (ps_ProjInfo is set)
    pc,                \* "start" | "open" | "closed" | "error"
    err,               \* "none" | "precondition" | "length" | "eval"
    curr_idx,          \* ValuesScanState.curr_idx
    array_len,         \* ValuesScanState.array_len
    exprlists,         \* ValuesScanState.exprlists
    exprstatelists,    \* ValuesScanState.exprstatelists
    natts,             \* ss_ScanTupleSlot->tts_tupleDescriptor->natts
    rowcontext,        \* ValuesScanState.rowcontext (context id, 0 = NULL)
    ps_ExprContext,    \* ss.ps.ps_ExprContext (context id, 0 = NULL)
    contexts,          \* the expression contexts created for the node
    slot,              \* ss.ss_ScanTupleSlot
    resultslot,        \* ss.ps.ps_ResultTupleSlot
    log,               \* steps of the last ValuesNext call of the scan, in order
    lastOp,            \* last operation called on the node
    lastDir,           \* direction of the last ExecValuesScan call of the scan
    ncalls,            \* calls of the one-direction scan under way since Open / ReScan
                       \* (saturating; 0 once both directions were used)
    dirs,              \* directions used since Open / ReScan
    rescanned,         \* a ReScan happened since Open
    back,              \* Backward calls in a row since the cursor was at array_len, -1 if n/a
    recheck,           \* what ValuesRecheck returned, if it was the last operation
    shadow             \* a freshly opened node fed the calls made since Open / ReScan

vars == << values_lists, es_subplanstates, hasProj, pc, err, curr_idx, array_len,
           exprlists, exprstatelists, natts, rowcontext, ps_ExprContext, contexts,
           slot, resultslot, log, lastOp, lastDir, ncalls, dirs, rescanned,
           back, recheck, shadow >>

planVars == << values_lists, es_subplanstates, hasProj >>

\* ------------------------------------------------- executor interface
\* ExecClearTuple: the slot holds no tuple afterwards.
ExecClearTuple(s) == [isempty |-> TRUE, values |-> << >>]

\* ExecStoreVirtualTuple: the values written into the slot become its tuple.
ExecStoreVirtualTuple(s) == [s EXCEPT !.isempty = FALSE]

\* ExecInitExprList(exprs, parent): one ExprState per expression, in order.
\* id identifies the list that was built (0 for one built in per-tuple memory,
\* which is handed out again after every reset of that memory).
ExecInitExprList(exprs, parent, id) ==
    [c \in 1..Len(exprs) |-> [expr |-> exprs[c], parent |-> parent, id |-> id]]

\* contain_subplans((Node *) exprs)
contain_subplans(exprs) == \E c \in 1..Len(exprs) : exprs[c].kind = "subplan"

\* ExecEvalExpr on an expression that does not raise: the datum it yields.
ExecEvalExpr(state) == [src |-> state.expr.tag, rw |-> state.expr.kind = "rw"]

\* MakeExpandedObjectReadOnly(d, isnull, attlen): a read-write expanded datum
\* of a varlena column becomes read-only (the datums of the model are not
\* null).
MakeExpandedObjectReadOnly(d, attlen) ==
    IF attlen # -1 THEN d ELSE [d EXCEPT !.rw = FALSE]

\* att[c]->attlen of the slot's tuple descriptor, c 1-based.  Every sublist has
\* the column types of the first one: a column in which some row yields an
\* expanded datum is of a varlena type (attlen -1); the other columns are
\* taken as fixed-length.
AttLen(c) ==
    IF \E i \in 1..Len(values_lists) :
            c <= Len(values_lists[i]) /\ values_lists[i][c].kind = "rw"
    THEN -1 ELSE 4

\* ReScanExprContext(econtext): what the context's per-tuple memory holds
\* afterwards.
ReScanExprContext(mem) == {}

\* ExecFreeExprContext(planstate): releases the context the plan state points
\* at; a NULL pointer releases nothing.
ExecFreeExprContext(ctxs, p) ==
    IF p = 0 THEN ctxs
    ELSE [ctxs EXCEPT ![p].freed = @ + 1, ![p].mem = {}]

\* Variant that takes an empty list for a list of zero-width rows.
ExecTypeFromFirstRowLax(lists) ==
    [ok |-> TRUE, natts |-> IF lists = << >> THEN 0 ELSE Len(lists[1])]

\* ExecTypeFromExprList(linitial(values_lists)): the tuple descriptor comes from
\* the first sublist; there is none to derive it from when the list is empty.
ExecTypeFromFirstRow(lists) ==
    IF lists = << >> THEN [ok |-> FALSE, natts |-> 0]
    ELSE [ok |-> TRUE, natts |-> Len(lists[1])]

\* ------------------------------------------------------------ ValuesNext
\* Variants of the cursor step: the forward bound one short, a backward step
\* that wraps from before-first to the last row, a step without bounds, a
\* backward step that stays put past the last row.
AdvanceOffByOne(idx, len, direction) ==
    IF direction = Forward
    THEN IF idx < len - 1 THEN idx + 1 ELSE idx
    ELSE IF idx >= 0 THEN idx - 1 ELSE idx

AdvanceWrap(idx, len, direction) ==
    IF direction = Forward
    THEN IF idx < len THEN idx + 1 ELSE idx
    ELSE IF idx >= 0 THEN idx - 1 ELSE len - 1

AdvanceUnbounded(idx, len, direction) ==
    IF direction = Forward THEN idx + 1 ELSE idx - 1

AdvanceSticky(idx, len, direction) ==
    IF direction = Forward
    THEN IF idx < len THEN idx + 1 ELSE idx
    ELSE IF idx >= 0 /\ idx < len THEN idx - 1 ELSE idx

\* Lines 66-75: move the cursor one step in the scan direction; it stops at
\* array_len going forward and at -1 going backward.
Advance(idx, len, direction) ==
    IF direction = Forward
    THEN IF idx < len THEN idx + 1 ELSE idx
    ELSE IF idx >= 0 THEN idx - 1 ELSE idx

\* Variant of the range test that leaves out the last row.
InRangeOffByOne(idx, len) == idx >= 0 /\ idx < len - 1

\* Line 86: the cursor denotes a row of the array.
InRange(idx, len) == idx >= 0 /\ idx < len

\* Variant of the length check that lets every list through.
LengthCheckOff(exprstatelist, n) == TRUE

\* Line 129: the expression state list has as many entries as the slot's tuple
\* descriptor has attributes.
LengthCheck(exprstatelist, n) == Len(exprstatelist) = n

\* First column of the list whose evaluation raises, 0 if none does.
FirstErr(exprstatelist) ==
    IF \E c \in 1..Len(exprstatelist) : exprstatelist[c].expr.kind = "err"
    THEN CHOOSE c \in 1..Len(exprstatelist) :
            /\ exprstatelist[c].expr.kind = "err"
            /\ \A d \in 1..(c - 1) : exprstatelist[d].expr.kind # "err"
    ELSE 0

\* Variant that stores the datum as ExecEvalExpr returned it.
FreezeDatumSkip(d, attlen) == d

\* Lines 154-156: values[resind] is passed through MakeExpandedObjectReadOnly
\* with the column's attlen.
FreezeDatum(d, attlen) == MakeExpandedObjectReadOnly(d, attlen)

\* Variant of the evaluation loop that swallows an evaluation error and goes
\* on with the next column.
EvalColumnsSuppress(exprstatelist) ==
    LET ok == { c \in 1..Len(exprstatelist) : exprstatelist[c].expr.kind # "err" }
        n  == Cardinality(ok)
        at(k) == CHOOSE c \in ok : Cardinality({ d \in ok : d <= c }) = k
    IN [ failed |-> 0,
         values |-> [k \in 1..n |-> FreezeDatum(ExecEvalExpr(exprstatelist[at(k)]), AttLen(k))],
         steps  |-> [c \in 1..Len(exprstatelist) |-> <<"eval", c - 1>>] ]

\* Lines 139-159: evaluate the columns in list order, writing values[resind].
\* The first column whose evaluation raises ends the loop (the error leaves
\* ValuesNext): the columns before it were written, nothing after it is
\* evaluated.  failed is that column (1-based), 0 if all were evaluated.
EvalColumns(exprstatelist) ==
    LET e == FirstErr(exprstatelist)
        n == IF e = 0 THEN Len(exprstatelist) ELSE e - 1
        m == IF e = 0 THEN Len(exprstatelist) ELSE e
    IN [ failed |-> e,
         values |-> [c \in 1..n |-> FreezeDatum(ExecEvalExpr(exprstatelist[c]), AttLen(c))],
         steps  |-> [c \in 1..m |-> <<"eval", c - 1>>] ]

\* Variant that builds the expression state list whatever the array holds.
RowExprStatesAlways(cached, exprlist) == ExecInitExprList(exprlist, "NULL", 0)

\* Lines 117-126: the expression state list used for the row.  A list found in
\* the array is used as it is; otherwise one is built in per-tuple memory with
\* a NULL parent.
RowExprStates(cached, exprlist) ==
    IF cached = NIL THEN ExecInitExprList(exprlist, "NULL", 0) ELSE cached

\* Variant that keeps the list built for the row in the node's array.
CacheAfterStore(cache, idx, exprstatelist) == [cache EXCEPT ![idx] = exprstatelist]

\* Lines 89 and 125: the list is held in the local exprstatelist only;
\* node->exprstatelists[curr_idx] is read, never assigned.
CacheAfter(cache, idx, exprstatelist) == cache

\* Variants of the handling of per-tuple memory: no reset before the row's
\* work, and the reset after the row's work instead of before it.
RowMemNoReset(mem, built) == mem \cup built

RowMemResetLast(mem, built) == ReScanExprContext(mem \cup built)

\* Lines 102-159: the row context is reset, then the row's work (expression
\* states built for it, the datums of its columns) is allocated in its
\* per-tuple memory.
RowMem(mem, built) == ReScanExprContext(mem) \cup built

\* Variant that resets the row context at the end of the data too.
EndOfDataMemReset(mem) == ReScanExprContext(mem)

\* Lines 86-167: off the array nothing is done to the row context.
EndOfDataMem(mem) == mem

\* Lines 83-166 in program order: ExecClearTuple (83), ReScanExprContext
\* (102), ExecInitExprList if the array had no list (125), the evaluation loop
\* (140-159), ExecStoreVirtualTuple (166).
Steps(compiled, evsteps, stored) ==
    << <<"clear", -1>>, <<"rescanctx", -1>> >>
    \o (IF compiled THEN << <<"compile", -1>> >> ELSE << >>)
    \o evsteps
    \o (IF stored THEN << <<"store", -1>> >> ELSE << >>)

\* Lines 47-170.  The outcome of one ValuesNext call on a node whose cursor is
\* idx and whose expression-state array is cache; lists is exprlists, n the
\* slot's natts, mem the content of the row context's per-tuple memory
\* (<<"state", i>>: the expression states built for row i, <<"values", i>>:
\* the datums of row i).  err is "none" when the call returns the slot.
ValuesNext(idx, cache, lists, len, n, mem, direction) ==
    LET new == Advance(idx, len, direction)
    IN  IF ~InRange(new, len)
        THEN [ curr_idx |-> new, err |-> "none", slot |-> ExecClearTuple(NoSlot),
               cache |-> cache, mem |-> EndOfDataMem(mem), log |-> << <<"clear", -1>> >> ]
        ELSE
          LET exprlist      == lists[new]
              exprstatelist == RowExprStates(cache[new], exprlist)
              compiled      == exprstatelist # cache[new]
              cache2        == CacheAfter(cache, new, exprstatelist)
              built         == IF compiled THEN { <<"state", new>> } ELSE {}
              ev            == EvalColumns(exprstatelist)
              filled        == [isempty |-> TRUE, values |-> ev.values]
          IN  IF ~LengthCheck(exprstatelist, n)
              THEN [ curr_idx |-> new, err |-> "length", slot |-> ExecClearTuple(NoSlot),
                     cache |-> cache2, mem |-> RowMem(mem, built),
                     log |-> Steps(compiled, << >>, FALSE) ]
              ELSE IF ev.failed # 0
              THEN [ curr_idx |-> new, err |-> "eval", slot |-> filled,
                     cache |-> cache2, mem |-> RowMem(mem, built \cup { <<"values", new>> }),
                     log |-> Steps(compiled, ev.steps, FALSE) ]
              ELSE [ curr_idx |-> new, err |-> "none", slot |-> ExecStoreVirtualTuple(filled),
                     cache |-> cache2, mem |-> RowMem(mem, built \cup { <<"values", new>> }),
                     log |-> Steps(compiled, ev.steps, TRUE) ]

\* Variant that works in the context of the plan state.
NextContextOfPlanState(rowctx, psctx) == psctx

\* Line 61: econtext = node->rowcontext.
NextContext(rowctx, psctx) == rowctx

\* --------------------------------------------------------- ValuesRecheck
\* Variant that accepts only a tuple that is there.
ValuesRecheckNonEmpty(idx, s) == ~s.isempty

\* Lines 175-180: nothing to check; the node (idx its cursor) and the slot are
\* not looked at.
ValuesRecheck(idx, s) == TRUE

\* -------------------------------------------------- ExecInitValuesScan
\* Variant that builds the expression states of every sublist at startup.
InitExprStateListsAll(lists, subplanstates) ==
    [i \in 0..(Len(lists) - 1) |-> ExecInitExprList(lists[i + 1], "node", i + 1)]

\* Lines 277-299: the expression-state array built at startup.  Sublists with
\* SubPlans get their expression states now, with the node as parent; every
\* other entry stays NIL (palloc0).
InitExprStateLists(lists, subplanstates) ==
    [i \in 0..(Len(lists) - 1) |->
        IF subplanstates /\ contain_subplans(lists[i + 1])
        THEN ExecInitExprList(lists[i + 1], "node", i + 1)
        ELSE NIL]

\* Lines 277-286: the sublists as an array.
InitExprLists(lists) == [i \in 0..(Len(lists) - 1) |-> lists[i + 1]]

\* A node as ExecInitValuesScan leaves it, as far as ValuesNext reads it.
FreshNode(lists, subplanstates) ==
    [ curr_idx |-> -1, cache |-> InitExprStateLists(lists, subplanstates),
      slot |-> NoSlot, err |-> "none" ]

\* ------------------------------------------------ ExecReScanValuesScan
\* Variant that leaves the cursor where it is.
ReScanIdxKeep(idx) == idx

\* Line 346: node->curr_idx = -1.
ReScanIdx(idx) == -1

\* --------------------------------------------------- ExecEndValuesScan
\* Variant without line 323: the second call finds the pointer the first one
\* cleared.
EndContextsNoSwap(ctxs, psctx, rowctx) ==
    ExecFreeExprContext(ExecFreeExprContext(ctxs, psctx), 0)

\* Lines 322-324: free the context ps_ExprContext points at, point it at the
\* row context, free again.
EndContexts(ctxs, psctx, rowctx) ==
    LET first == ExecFreeExprContext(ctxs, psctx)
    IN  ExecFreeExprContext(first, rowctx)

\* --------------------------------------------------------------- state
NoContexts == [p \in 1..2 |-> [created |-> FALSE, freed |-> 0, mem |-> {}]]

\* Before ExecInitValuesScan runs: a plan, and no node yet (makeNode zeroes
\* the node).  A plan whose sublists contain SubPlans has subplan states in
\* the EState.
Init ==
    /\ values_lists \in Plans
    /\ es_subplanstates \in BOOLEAN
    /\ (\E i \in 1..Len(values_lists) : contain_subplans(values_lists[i])) => es_subplanstates
    /\ hasProj \in BOOLEAN
    /\ pc = "start"
    /\ err = "none"
    /\ curr_idx = 0
    /\ array_len = 0
    /\ exprlists = << >>
    /\ exprstatelists = << >>
    /\ natts = 0
    /\ rowcontext = 0
    /\ ps_ExprContext = 0
    /\ contexts = NoContexts
    /\ slot = NoSlot
    /\ resultslot = NoSlot
    /\ log = << >>
    /\ lastOp = "none"
    /\ lastDir = Forward
    /\ ncalls = 0
    /\ dirs = "none"
    /\ rescanned = FALSE
    /\ back = -1
    /\ recheck = "none"
    /\ shadow = [curr_idx |-> 0, cache |-> << >>, slot |-> NoSlot, err |-> "none"]

\* ExecInitValuesScan (lines 205-308).
ExecInitValuesScan ==
    /\ pc = "start"
    /\ LET t == ExecTypeFromFirstRow(values_lists)
       IN  /\ contexts' = [p \in 1..2 |-> [created |-> TRUE, freed |-> 0, mem |-> {}]]
           /\ rowcontext' = 1
           /\ ps_ExprContext' = 2
           /\ IF ~t.ok
              THEN /\ pc' = "error"
                   /\ err' = "precondition"
                   /\ UNCHANGED << curr_idx, array_len, exprlists, exprstatelists, natts, shadow >>
              ELSE /\ pc' = "open"
                   /\ err' = "none"
                   /\ natts' = t.natts
                   /\ curr_idx' = -1
                   /\ array_len' = Len(values_lists)
                   /\ exprlists' = InitExprLists(values_lists)
                   /\ exprstatelists' = InitExprStateLists(values_lists, es_subplanstates)
                   /\ shadow' = FreshNode(values_lists, es_subplanstates)
    /\ slot' = NoSlot
    /\ resultslot' = NoSlot
    /\ log' = << >>
    /\ lastOp' = "Init"
    /\ ncalls' = 0
    /\ dirs' = "none"
    /\ rescanned' = FALSE
    /\ back' = -1
    /\ recheck' = "none"
    /\ UNCHANGED << planVars, lastDir >>

\* ExecScan's handling of the tuple ValuesNext returned (no qual): with a
\* projection the result slot receives the projected row, or is cleared at
\* the end of the data.
ExecScanResult(s, rs, proj) ==
    IF ~proj THEN rs
    ELSE IF s.isempty THEN ExecClearTuple(rs)
    ELSE [isempty |-> FALSE, values |-> s.values]

\* ExecValuesScan (lines 191-199) running ValuesNext (lines 46-170) in the
\* EState's scan direction.
ExecValuesScan(direction) ==
    /\ pc = "open"
    /\ LET econtext == NextContext(rowcontext, ps_ExprContext)
           r  == ValuesNext(curr_idx, exprstatelists, exprlists, array_len, natts,
                            contexts[econtext].mem, direction)
           sh == ValuesNext(shadow.curr_idx, shadow.cache, exprlists, array_len, natts,
                            {}, direction)
       IN  /\ curr_idx' = r.curr_idx
           /\ slot' = r.slot
           /\ log' = r.log
           /\ contexts' = [contexts EXCEPT ![econtext].mem = r.mem]
           /\ err' = r.err
           /\ pc' = IF r.err = "none" THEN "open" ELSE "error"
           /\ resultslot' = IF r.err = "none" THEN ExecScanResult(r.slot, resultslot, hasProj)
                            ELSE resultslot
           /\ exprstatelists' = r.cache
           /\ shadow' = [curr_idx |-> sh.curr_idx, cache |-> sh.cache, slot |-> sh.slot,
                         err |-> sh.err]
           /\ back' = IF direction = Forward
                      THEN (IF r.curr_idx = array_len THEN 0 ELSE -1)
                      ELSE (IF back < 0 THEN -1
                            ELSE IF back < MaxCalls THEN back + 1 ELSE back)
    /\ lastOp' = "Next"
    /\ recheck' = "none"
    /\ lastDir' = direction
    /\ dirs' = IF dirs = "none" \/ dirs = direction THEN direction ELSE "mixed"
    /\ ncalls' = IF dirs' = "mixed" THEN 0
                 ELSE IF ncalls < MaxCalls THEN ncalls + 1 ELSE ncalls
    /\ UNCHANGED << planVars, array_len, exprlists, natts, rowcontext, ps_ExprContext,
                    rescanned >>

\* ExecReScanValuesScan (lines 339-347).  ExecScanReScan only touches the
\* EvalPlanQual bookkeeping of the EState, which the node does not read.
ExecReScanValuesScan ==
    /\ pc = "open"
    /\ resultslot' = ExecClearTuple(resultslot)
    /\ curr_idx' = ReScanIdx(curr_idx)
    /\ shadow' = FreshNode(values_lists, es_subplanstates)
    /\ lastOp' = "ReScan"
    /\ recheck' = "none"
    /\ ncalls' = 0
    /\ dirs' = "none"
    /\ rescanned' = TRUE
    /\ back' = -1
    /\ log' = << >>
    /\ lastDir' = Forward
    /\ UNCHANGED << planVars, pc, err, array_len, exprlists, exprstatelists, natts,
                    rowcontext, ps_ExprContext, contexts, slot >>

\* ExecEndValuesScan (lines 316-331).  The scan is over: the bookkeeping of
\* the calls of the current scan starts afresh.
ExecEndValuesScan ==
    /\ pc = "open"
    /\ pc' = "closed"
    /\ contexts' = EndContexts(contexts, ps_ExprContext, rowcontext)
    /\ ps_ExprContext' = 0
    /\ resultslot' = ExecClearTuple(resultslot)
    /\ slot' = ExecClearTuple(slot)
    /\ lastOp' = "End"
    /\ recheck' = "none"
    /\ log' = << >>
    /\ ncalls' = 0
    /\ dirs' = "none"
    /\ back' = -1
    /\ shadow' = FreshNode(values_lists, es_subplanstates)
    /\ lastDir' = Forward
    /\ rescanned' = FALSE
    /\ UNCHANGED << planVars, err, curr_idx, array_len, exprlists, exprstatelists, natts,
                    rowcontext >>

\* ExecScan's recheck callback (line 198) on the node and its scan slot.
RecheckCall ==
    /\ pc = "open"
    /\ recheck' = IF ValuesRecheck(curr_idx, slot) THEN "true" ELSE "false"
    /\ lastOp' = "Recheck"
    /\ UNCHANGED << planVars, pc, err, curr_idx, array_len, exprlists, exprstatelists,
                    natts, rowcontext, ps_ExprContext, contexts, slot, resultslot, log,
                    lastDir, ncalls, dirs, rescanned, back, shadow >>

Next ==
    \/ ExecInitValuesScan
    \/ \E direction \in Directions : ExecValuesScan(direction)
    \/ ExecReScanValuesScan
    \/ ExecEndValuesScan
    \/ RecheckCall

Spec == Init /\ [][Next]_vars


\* =============================================================== claims
\* The expressions of row i (0-based) of a table of the slot's width, by tag.
RowSrc(i) == [c \in 1..natts |-> <<i, c - 1>>]

\* The expressions the values of a slot came from.
SrcOf(s) == [c \in 1..Len(s.values) |-> s.values[c].src]

ReturnsRow(s, i) == ~s.isempty /\ SrcOf(s) = RowSrc(i)
ReturnsEnd(s) == s.isempty

\* The last operation was an ExecValuesScan call that returned.
NextReturned == pc = "open" /\ lastOp = "Next"

\* The cursor is on a row of the array.
OnRow == curr_idx >= 0 /\ curr_idx < array_len

\* The "eval" steps of a log.
EvalSteps(l) == SelectSeq(l, LAMBDA x : x[1] = "eval")

\* First column (1-based) of an expression list whose evaluation raises.
FirstErrCol(exprs) ==
    IF \E c \in 1..Len(exprs) : exprs[c].kind = "err"
    THEN CHOOSE c \in 1..Len(exprs) :
            exprs[c].kind = "err" /\ \A d \in 1..(c - 1) : exprs[d].kind # "err"
    ELSE 0

\* C1: from a fresh Open and with Forward calls only, the i-th call that
\* returns (i = 1..N) returns the row at index i-1, and call N+1 and every
\* later one return the end marker.
C1_ForwardScan ==
    (NextReturned /\ ~rescanned /\ dirs = Forward) =>
        IF ncalls <= array_len THEN ReturnsRow(slot, ncalls - 1) ELSE ReturnsEnd(slot)

C1_Witness ==
    /\ NextReturned /\ ~rescanned /\ dirs = Forward
    /\ array_len >= 2 /\ ncalls = array_len + 2 /\ ReturnsEnd(slot)

\* C2 as stated: from a fresh Open and with Backward calls only, the j-th call
\* (j = 1..N) returns the row at index N-j, later calls the end marker.
C2_BackwardFromOpen ==
    (NextReturned /\ ~rescanned /\ dirs = Backward) =>
        IF ncalls <= array_len THEN ReturnsRow(slot, array_len - ncalls) ELSE ReturnsEnd(slot)

\* C2 (amended): from a fresh Open, Backward calls only ever return the end
\* marker and leave the cursor before-first; the reverse traversal is what
\* Backward calls yield from a cursor past the last row: the j-th call in a
\* row (j = 1..N) returns the row at index N-j, call N+1 and later the end
\* marker.
C2_BackwardScan ==
    /\ (NextReturned /\ ~rescanned /\ dirs = Backward) =>
            (ReturnsEnd(slot) /\ curr_idx = -1)
    /\ (NextReturned /\ back >= 1) =>
            IF back <= array_len THEN ReturnsRow(slot, array_len - back) ELSE ReturnsEnd(slot)

C2_Witness ==
    /\ NextReturned /\ array_len >= 2 /\ back = array_len + 1 /\ ReturnsEnd(slot)

\* C3: after a ReScan, whatever calls came before it, every ExecValuesScan
\* call has the outcome (row, end marker or error) that the same calls have on
\* a freshly opened node.
C3_ReScanReplay ==
    (lastOp = "Next" /\ rescanned) =>
        /\ err = shadow.err
        /\ slot = shadow.slot
        /\ curr_idx = shadow.curr_idx

\* A Backward call after a ReScan, on a node that had materialized a row before
\* the ReScan (its expression state is still in per-tuple memory).
C3_Witness ==
    /\ NextReturned /\ rescanned /\ dirs = Backward
    /\ contexts[rowcontext].mem # {}
    /\ ReturnsEnd(slot)

\* C4: once Open has built the expression-state array, no operation changes
\* it: entries built at Open keep their identity, NIL entries stay NIL.
C4_CacheWrittenOnlyByOpen ==
    (pc \in {"open", "closed"} \/ (pc = "error" /\ err # "precondition")) =>
        exprstatelists = InitExprStateLists(values_lists, es_subplanstates)

\* After a ReScan, a call returned a row whose entry is NIL, in a table that
\* also has an entry built at Open.
C4_Witness ==
    /\ NextReturned /\ rescanned /\ OnRow /\ ~slot.isempty
    /\ exprstatelists[curr_idx] = NIL
    /\ \E j \in DOMAIN exprstatelists :
            /\ exprstatelists[j] # NIL
            /\ \A c \in DOMAIN exprstatelists[j] :
                    exprstatelists[j][c].parent = "node" /\ exprstatelists[j][c].id = j + 1

\* C5: a call that returns hands back a populated slot exactly when the cursor
\* is on a row after the step, and then the slot holds that row's expressions
\* evaluated in column order; otherwise the slot is empty.
C5_NextResult ==
    NextReturned =>
        /\ (~slot.isempty) <=> (curr_idx >= 0 /\ curr_idx < array_len)
        /\ (~slot.isempty) => SrcOf(slot) = RowSrc(curr_idx)

C5_Witness ==
    /\ NextReturned /\ rescanned /\ dirs = "mixed"
    /\ curr_idx = array_len - 1 /\ array_len >= 2 /\ ReturnsRow(slot, curr_idx)

\* C6: a Backward call made with the cursor at array_len returns the row at
\* index array_len - 1, and a Forward call made with the cursor at -1 returns
\* the row at index 0 (when the call returns).
C6_ResumeAfterExhaustion ==
    [][ (pc = "open" /\ pc' = "open" /\ lastOp' = "Next") =>
            /\ (curr_idx = array_len /\ lastDir' = Backward) =>
                    ReturnsRow(slot', array_len - 1)
            /\ (curr_idx = -1 /\ lastDir' = Forward) =>
                    ReturnsRow(slot', 0) ]_vars

C6_Witness ==
    /\ NextReturned /\ back = 1 /\ lastDir = Backward
    /\ curr_idx = array_len - 1 /\ ReturnsRow(slot, array_len - 1)

\* C7: ExecEndValuesScan, from any state of an open node, frees the node's
\* expression context and the row context once each, and leaves the result
\* slot and the scan slot empty; no context is freed before it.
C7_CloseReleases ==
    /\ pc = "open" => \A p \in 1..2 : contexts[p].created /\ contexts[p].freed = 0
    /\ pc = "closed" =>
            /\ \A p \in 1..2 : contexts[p].freed = 1 /\ contexts[p].mem = {}
            /\ slot.isempty
            /\ resultslot.isempty

\* Closed with the cursor on a row whose expression state was built in
\* per-tuple memory.
C7_Witness ==
    /\ pc = "closed" /\ OnRow /\ exprstatelists[curr_idx] = NIL
    /\ contexts[1].freed = 1 /\ contexts[2].freed = 1

\* C8: a call that lands on a row whose expression list is not as long as the
\* tuple descriptor is wide ends in the length failure, with no column
\* evaluated and the slot empty; it never returns.
C8_LengthMismatchFatal ==
    (lastOp = "Next" /\ OnRow /\ Len(exprlists[curr_idx]) # natts) =>
        /\ pc = "error" /\ err = "length"
        /\ slot.isempty /\ slot.values = << >>
        /\ EvalSteps(log) = << >>

C8_Witness ==
    /\ err = "length" /\ curr_idx >= 1 /\ Len(exprlists[curr_idx]) # natts

\* C9: ExecInitValuesScan on an empty values_lists ends in the precondition
\* failure; the node is never open.
C9_EmptyRejected ==
    (values_lists = << >> /\ pc # "start") => (pc = "error" /\ err = "precondition")

C9_Witness == values_lists = << >> /\ pc = "error" /\ lastOp = "Init"

\* C10: a call that lands on a row (of the right width) with a failing column
\* ends in that evaluation error: the slot was cleared first and is not marked
\* populated, the columns up to the failing one were evaluated once each in
\* order and none after it, and the cursor stays on the failing row.
C10_EvalFailurePropagates ==
    /\ (lastOp = "Next" /\ OnRow /\ Len(exprlists[curr_idx]) = natts
            /\ FirstErrCol(exprlists[curr_idx]) # 0) =>
            (pc = "error" /\ err = "eval")
    /\ err = "eval" =>
            /\ pc = "error" /\ lastOp = "Next" /\ OnRow
            /\ slot.isempty
            /\ log[1] = <<"clear", -1>>
            /\ LET e == FirstErrCol(exprlists[curr_idx])
               IN  /\ e # 0
                   /\ EvalSteps(log) = [c \in 1..e |-> <<"eval", c - 1>>]
                   /\ log[Len(log)] = <<"eval", e - 1>>
                   /\ Len(slot.values) = e - 1

\* The first column of a two-column row failed: the second was not evaluated.
C10_Witness ==
    /\ err = "eval" /\ Len(exprlists[curr_idx]) = 2
    /\ FirstErrCol(exprlists[curr_idx]) = 1 /\ Len(EvalSteps(log)) = 1


\* C11: ValuesRecheck returns true whatever the tuple and the state of the
\* node, and the call changes nothing of the node: cursor, expression-state
\* array, contexts and slots are as before.
C11_RecheckTrueNoEffect ==
    [][ lastOp' = "Recheck" =>
            /\ recheck' = "true"
            /\ UNCHANGED << curr_idx, array_len, exprlists, exprstatelists, natts,
                            rowcontext, ps_ExprContext, contexts, slot, resultslot, pc, err >>
      ]_vars

\* Rechecked with the cursor on a row, after a ReScan and further calls.
C11_Witness ==
    /\ lastOp = "Recheck" /\ recheck = "true" /\ pc = "open"
    /\ rescanned /\ OnRow /\ ~slot.isempty

\* The node exists: ExecInitValuesScan returned it.
NodeBuilt == pc = "open" \/ pc = "closed" \/ (pc = "error" /\ err # "precondition")

\* C12: the cursor of a node is always in -1..array_len; it is -1 right after
\* ExecInitValuesScan and right after ExecReScanValuesScan, and one
\* ExecValuesScan call moves it by at most one.
C12_CursorRange ==
    /\ [](NodeBuilt =>
            /\ curr_idx >= -1 /\ curr_idx <= array_len
            /\ (lastOp \in {"Init", "ReScan"} => curr_idx = -1))
    /\ [][ lastOp' = "Next" =>
            (curr_idx' - curr_idx <= 1 /\ curr_idx - curr_idx' <= 1) ]_vars

\* Back at before-first by Backward calls, after a ReScan and Forward calls.
C12_Witness ==
    /\ NextReturned /\ rescanned /\ dirs = "mixed" /\ curr_idx = -1 /\ array_len >= 2

\* C13: a Forward call with the cursor at array_len, and a Backward call with
\* the cursor at -1, leave the cursor where it is and return the empty slot
\* without error; no expression state is built, nothing is evaluated, and the
\* contexts are as before (the row context is not reset).
C13_Saturation ==
    [][ ( /\ pc = "open" /\ lastOp' = "Next"
          /\ \/ (curr_idx = array_len /\ lastDir' = Forward)
             \/ (curr_idx = -1 /\ lastDir' = Backward) ) =>
            /\ curr_idx' = curr_idx
            /\ pc' = "open" /\ err' = "none"
            /\ slot'.isempty
            /\ log' = << <<"clear", -1>> >>
            /\ contexts' = contexts
            /\ exprstatelists' = exprstatelists ]_vars

\* Forward calls went on past the end while the row context still holds the
\* last row's work.
C13_Witness ==
    /\ NextReturned /\ dirs = Forward /\ curr_idx = array_len
    /\ ncalls >= array_len + 2 /\ slot.isempty
    /\ contexts[rowcontext].mem # {}

\* Row i (0-based) of the plan has a SubPlan in one of its expressions.
RowHasSubPlan(i) ==
    \E c \in 1..Len(values_lists[i + 1]) : values_lists[i + 1][c].kind = "subplan"

\* C14: right after ExecInitValuesScan the array entry of row i holds expression
\* states exactly when row i contains a SubPlan; those states have the node as
\* parent, one per expression of the row, and nothing was allocated in the row
\* context.
C14_CacheAfterOpen ==
    (pc = "open" /\ lastOp = "Init") =>
        /\ DOMAIN exprstatelists = 0..(array_len - 1)
        /\ \A i \in 0..(array_len - 1) :
                /\ (exprstatelists[i] # NIL) <=> RowHasSubPlan(i)
                /\ exprstatelists[i] # NIL =>
                        /\ Len(exprstatelists[i]) = Len(exprlists[i])
                        /\ \A c \in 1..Len(exprstatelists[i]) :
                                /\ exprstatelists[i][c].parent = "node"
                                /\ exprstatelists[i][c].expr = exprlists[i][c]
        /\ contexts[rowcontext].mem = {}

C14_Witness ==
    /\ pc = "open" /\ lastOp = "Init" /\ array_len >= 2
    /\ \E i, j \in 0..(array_len - 1) : exprstatelists[i] # NIL /\ exprstatelists[j] = NIL

\* The expression states allocated in the row context's per-tuple memory.
TransientLive == { m \in contexts[rowcontext].mem : m[1] = "state" }

\* C15 as stated: when an ExecValuesScan call has returned, no expression
\* state built in per-tuple memory is live.
C15_NoTransientAfterReturn == NextReturned => TransientLive = {}

\* C15 (amended): an expression state built in per-tuple memory is never put
\* into the node's array, but it outlives the call that built it: after a call
\* that returned row i, row i's state is the one live (none if row i's states
\* were built at startup), states of other rows are gone; at most one is live
\* at any time, and none after ExecEndValuesScan.
C15_TransientLifetime ==
    /\ NodeBuilt =>
            /\ \A i \in DOMAIN exprstatelists : \A c \in DOMAIN exprstatelists[i] :
                    exprstatelists[i][c].parent = "node"
            /\ Cardinality(TransientLive) <= 1
    /\ (NextReturned /\ OnRow) =>
            TransientLive = IF exprstatelists[curr_idx] = NIL
                            THEN { <<"state", curr_idx>> } ELSE {}
    /\ pc = "closed" => TransientLive = {}

\* The second of two rows without SubPlans was returned: its state is live,
\* the first row's is gone.
C15_Witness ==
    /\ NextReturned /\ OnRow /\ curr_idx >= 1
    /\ exprstatelists[curr_idx] = NIL /\ exprstatelists[curr_idx - 1] = NIL
    /\ TransientLive = { <<"state", curr_idx>> }

\* Rows of the plan with a SubPlan.
SubPlanRows == { i \in 0..(Len(values_lists) - 1) : RowHasSubPlan(i) }

\* C16: the expression state lists alive are at most k + 1, k the number of
\* rows with SubPlans: those of the array plus at most one in per-tuple memory;
\* a call on a row whose list is in the array builds none.
C16_LiveStatesBounded ==
    /\ NodeBuilt =>
            /\ Cardinality(TransientLive) <= 1
            /\ Cardinality({ i \in DOMAIN exprstatelists : exprstatelists[i] # NIL })
                    + Cardinality(TransientLive) <= Cardinality(SubPlanRows) + 1
    /\ (lastOp = "Next" /\ OnRow /\ RowHasSubPlan(curr_idx)) =>
            /\ \A k \in 1..Len(log) : log[k][1] # "compile"
            /\ TransientLive = {}

\* k + 1 lists alive, with k >= 1.
C16_Witness ==
    /\ NextReturned /\ OnRow /\ ~RowHasSubPlan(curr_idx)
    /\ SubPlanRows # {}
    /\ Cardinality({ i \in DOMAIN exprstatelists : exprstatelists[i] # NIL })
            + Cardinality(TransientLive) = Cardinality(SubPlanRows) + 1

\* C17: a call that returns a row did, in this order: clear the slot, reset
\* the row context, build the row's expression states if the array had none,
\* evaluate columns 0..natts-1, mark the slot populated.  A populated slot
\* holds datums that are still allocated in the row context.
C17_StepOrder ==
    /\ (NextReturned /\ OnRow) =>
            log = << <<"clear", -1>>, <<"rescanctx", -1>> >>
                  \o (IF exprstatelists[curr_idx] = NIL
                      THEN << <<"compile", -1>> >> ELSE << >>)
                  \o [c \in 1..natts |-> <<"eval", c - 1>>]
                  \o << <<"store", -1>> >>
    /\ (pc = "open" /\ ~slot.isempty) =>
            <<"values", slot.values[1].src[1]>> \in contexts[rowcontext].mem

\* A two-column row whose states were built in the call, returned after
\* another row's work had been in the row context.
C17_Witness ==
    /\ NextReturned /\ OnRow /\ curr_idx >= 1 /\ natts >= 2
    /\ exprstatelists[curr_idx] = NIL
    /\ Len(log) = natts + 4
    /\ contexts[rowcontext].mem = { <<"state", curr_idx>>, <<"values", curr_idx>> }

\* C18: no datum of a populated slot is a read-write expanded datum, whatever
\* the row and the column, and whether the row's expression states came from
\* the array or were built in the call.
C18_NoReadWriteDatum ==
    ~slot.isempty => \A c \in 1..Len(slot.values) : ~slot.values[c].rw

\* A row with a SubPlan and an expression yielding a read-write datum was
\* returned.
C18_Witness ==
    /\ NextReturned /\ OnRow /\ ~slot.isempty
    /\ exprstatelists[curr_idx] # NIL
    /\ \E c \in 1..Len(exprlists[curr_idx]) : exprlists[curr_idx][c].kind = "rw"

\* C19: while the node is open its row context and the context of its plan
\* state are two different contexts, and nothing ValuesNext or ReScan does
\* lands in the plan state's context.
C19_DriverScopeUntouched ==
    (pc = "open" \/ (pc = "error" /\ err # "precondition")) =>
        /\ rowcontext # 0 /\ ps_ExprContext # 0 /\ rowcontext # ps_ExprContext
        /\ contexts[rowcontext].created /\ contexts[ps_ExprContext].created
        /\ contexts[ps_ExprContext].mem = {}
        /\ contexts[ps_ExprContext].freed = 0

C19_Witness ==
    /\ NextReturned /\ rescanned /\ OnRow
    /\ contexts[rowcontext].mem # {} /\ contexts[ps_ExprContext].mem = {}

====
